---- MODULE Spec2Model ----
(***************************************************************************)
(* MiacatPoker: the commit-reveal state machine of MiacatPokerSystem       *)
(* (miapoker.py) and the checks of MiacatVerifier (miaverify.py).          *)
(*                                                                         *)
(* A Python str is a sequence of Unicode code points, bytes a sequence of  *)
(* 0..255, a dict a function from its keys, None the value None below.     *)
(* secrets.token_hex and secrets.randbelow are inputs of the actions.      *)
(***************************************************************************)
EXTENDS Integers, Sequences, FiniteSets, TLC

VARIABLES
    gameId,        \* self.gameId
    serverSeed,    \* self.serverSeed     (houseSeed)
    serverHash,    \* self.serverHash     (houseCommitHash)
    doubleHash,    \* self.doubleHash     (houseCommitChainHash)
    cardMapping,   \* self.cardMapping    (cardIdentityPermutation)
    clientSeeds,   \* self.clientSeeds    (participantSeeds)
    positions,     \* self.positions      (seatAssignment)
    commitments,   \* self.commitments    (participantCommitments)
    lastCall,      \* the last method call on the game and how it ended
    gameData,      \* the record the verifier was constructed with
    results,       \* what verifyGame returned for gameData
    baseline,      \* the record and report before the last tampering
    deck,          \* deck of demoGame: what generateDeck returned
    dealt,         \* what dealCards displayed
    shown,         \* what showGameResults collected and ranked
    evaluated      \* the last evaluateHand call and what it returned

gameVars == <<gameId, serverSeed, serverHash, doubleHash, cardMapping,
              clientSeeds, positions, commitments>>
verifierVars == <<gameData, results, baseline>>
tableVars == <<deck, dealt, shown, evaluated>>
vars == <<gameVars, lastCall, verifierVars, tableVars>>

-----------------------------------------------------------------------------
(* Bounds of the model *)

\* outcomes of secrets.token_hex(32)
NumServerSeeds == 1
\* outcomes of secrets.token_hex(16)
NumSalts == 1
\* the secrets.randbelow draws of one shuffle are the digits of 0..MaxEntropy
MaxEntropy == 1
\* the draws of one card shuffle in SpecDeck: the digits of multiples of a
\* stride up to this multiple
MaxDeckEntropy == 120
\* the draws of one seat shuffle in SpecCap are the digits of 0..MaxSeatEntropy
MaxSeatEntropy == 5
\* participant ids offered in SpecCap
NumCapPlayerIds == 10
\* the draws of one deck shuffle in SpecDeal: the digits of multiples of a
\* stride up to this multiple
MaxDrawEntropy == 20

-----------------------------------------------------------------------------
(* Python values *)

None == <<-1>>

EmptyDict == <<>>

\* bool(x) of a str, a list or None
Truthy(x) == x # None /\ x # <<>>

\* bool(d) of a dict
DictTruthy(d) == DOMAIN d # {}

\* c * n for a one-character str c
Repeat(c, n) == [i \in 1..n |-> c]

RECURSIVE Join(_, _, _)
\* "".join(parts[lo..hi])
Join(parts, lo, hi) ==
    IF lo > hi THEN <<>>
    ELSE IF lo = hi THEN parts[lo]
    ELSE LET mid == (lo + hi) \div 2
         IN  Join(parts, lo, mid) \o Join(parts, mid + 1, hi)

\* the UTF-8 bytes of one code point
Utf8Bytes(c) ==
    IF c < 128 THEN <<c>>
    ELSE IF c < 2048 THEN <<192 + (c \div 64), 128 + (c % 64)>>
    ELSE IF c < 65536
         THEN <<224 + (c \div 4096), 128 + ((c \div 64) % 64), 128 + (c % 64)>>
    ELSE <<240 + (c \div 262144), 128 + ((c \div 4096) % 64),
           128 + ((c \div 64) % 64), 128 + (c % 64)>>

\* s.encode('utf-8')
Utf8Encode(s) == Join([i \in 1..Len(s) |-> Utf8Bytes(s[i])], 1, Len(s))

\* str(x) of a str or None, as an f-string formats it
Str(x) == IF x = None THEN <<78, 111, 110, 101>> ELSE x

\* hashlib.sha512(value.encode('utf-8')).hexdigest() as an ideal digest: the
\* text "(" value ")". The encoding is one-to-one, so this is one digest per
\* byte string, and no two byte strings share a digest. None is hashed as
\* its JSON text, null.
hashValue(value) ==
    IF value = None THEN <<40, 110, 117, 108, 108, 41>>
    ELSE <<40>> \o value \o <<41>>

HexDigit(d) == IF d < 10 THEN 48 + d ELSE 87 + d

\* one outcome of secrets.token_hex(nbytes): 2*nbytes hexadecimal digits
TokenHex(nbytes, k) == [i \in 1..(2 * nbytes) |-> HexDigit(k % 16)]

\* json.dumps(s) of a str without quote, backslash or control character;
\* a code point above 126 stands for its \uXXXX escape
JsonString(s) == <<34>> \o s \o <<34>>

\* json.dumps(card, sort_keys=True): {"display": .., "suit": .., "value": ..}
JsonCard(card) ==
    <<123>> \o JsonString(<<100, 105, 115, 112, 108, 97, 121>>) \o <<58, 32>>
            \o JsonString(card.display) \o <<44, 32>>
            \o JsonString(<<115, 117, 105, 116>>) \o <<58, 32>>
            \o JsonString(card.suit) \o <<44, 32>>
            \o JsonString(<<118, 97, 108, 117, 101>>) \o <<58, 32>>
            \o JsonString(card.value) \o <<125>>

\* json.dumps(cards, sort_keys=True) of a list of cards
JsonDumps(cards) ==
    IF cards = None THEN <<110, 117, 108, 108>>
    ELSE
    <<91>>
    \o Join([i \in 1..Len(cards) |->
                IF i = 1 THEN JsonCard(cards[i])
                ELSE <<44, 32>> \o JsonCard(cards[i])], 1, Len(cards))
    \o <<93>>

RECURSIVE StrLeq(_, _)
\* a <= b for two str (code point by code point, a prefix first)
StrLeq(a, b) ==
    IF a = <<>> THEN TRUE
    ELSE IF b = <<>> THEN FALSE
    ELSE IF a[1] # b[1] THEN a[1] < b[1]
    ELSE StrLeq(Tail(a), Tail(b))

RECURSIVE sorted(_)
\* sorted(S) of a set of str
sorted(S) ==
    IF S = {} THEN <<>>
    ELSE LET m == CHOOSE x \in S : \A y \in S : StrLeq(x, y)
         IN  <<m>> \o sorted(S \ {m})

\* d[k] = v
DictSet(d, k, v) == [x \in (DOMAIN d) \cup {k} |-> IF x = k THEN v ELSE d[x]]

-----------------------------------------------------------------------------
(* MiacatPokerSystem *)

\* "0.0.8"
VERSION == <<48, 46, 48, 46, 56>>

gameVersion == VERSION

MAX_PLAYERS == 9

\* ' of Hearts', ' of Diamonds', ' of Clubs', ' of Spades', each with its symbol
SUITS ==
    << <<32, 111, 102, 32, 72, 101, 97, 114, 116, 115, 32, 9829>>,
       <<32, 111, 102, 32, 68, 105, 97, 109, 111, 110, 100, 115, 32, 9830>>,
       <<32, 111, 102, 32, 67, 108, 117, 98, 115, 32, 9827>>,
       <<32, 111, 102, 32, 83, 112, 97, 100, 101, 115, 32, 9824>> >>

\* 'Ace', '2', .., '10', 'Jack', 'Queen', 'King'
VALUES ==
    << <<65, 99, 101>>, <<50>>, <<51>>, <<52>>, <<53>>, <<54>>, <<55>>, <<56>>,
       <<57>>, <<49, 48>>, <<74, 97, 99, 107>>, <<81, 117, 101, 101, 110>>,
       <<75, 105, 110, 103>> >>

\* f"MiacatPoker_{self.gameVersion}:{self.gameId}:"
BindingPrefix(version, gid) ==
    <<77, 105, 97, 99, 97, 116, 80, 111, 107, 101, 114, 95>> \o Str(version)
    \o <<58>> \o Str(gid) \o <<58>>

\* Swap with the second assignment lost: items[i] = items[j]
SwapOverwrite(items, i, j) == [items EXCEPT ![i + 1] = items[j + 1]]

\* items[i], items[j] = items[j], items[i]   (indices from 0)
Swap(items, i, j) ==
    [items EXCEPT ![i + 1] = items[j + 1], ![j + 1] = items[i + 1]]

\* secrets.randbelow(n): the draws of one shuffle are the mixed-radix digits
\* of its entropy, the first draw the lowest digit
RandBelow(entropy, n) == entropy % n

RestEntropy(entropy, n) == entropy \div n

RECURSIVE ShuffleFrom(_, _, _)
\* the loop of _secureArrayShuffle from index i down to 1
ShuffleFrom(items, i, entropy) ==
    IF i < 1 THEN items
    ELSE LET j == RandBelow(entropy, i + 1)
         IN  ShuffleFrom(Swap(items, i, j), i - 1, RestEntropy(entropy, i + 1))

secureArrayShuffle(items, entropy) == ShuffleFrom(items, Len(items) - 1, entropy)

\* the 52 cards in the order of the two loops, suit by suit
CanonicalCards ==
    [n \in 1..(Len(SUITS) * Len(VALUES)) |->
        LET suit == SUITS[((n - 1) \div Len(VALUES)) + 1]
            value == VALUES[((n - 1) % Len(VALUES)) + 1]
        IN  [suit |-> suit, value |-> value, display |-> value \o suit]]

generateCardMapping(entropy) == secureArrayShuffle(CanonicalCards, entropy)

\* combinedSeed of generateServerSeed and verifyServerHash
CombinedSeed(version, gid, seed, mapping) ==
    BindingPrefix(version, gid) \o Str(seed) \o <<58>> \o JsonDumps(mapping)

\* commitmentString of processClientSeed and verifyPlayerCommitment
CommitmentString(version, gid, seed, salt) ==
    BindingPrefix(version, gid) \o Str(seed) \o <<58>> \o Str(salt)

Call(op, playerId, clientSeed, error) ==
    [op |-> op, playerId |-> playerId, clientSeed |-> clientSeed, error |-> error]

\* the outcomes of the random sources
ServerSeeds == {TokenHex(32, k) : k \in 0..(NumServerSeeds - 1)}
Salts == {TokenHex(16, k) : k \in 0..(NumSalts - 1)}
Entropies == 0..MaxEntropy

\* MiacatPokerSystem() of demoGame: gameId = secrets.token_hex(8)
GameIds == {TokenHex(8, 10)}

\* generateServerSeed hashing before it replaces self.cardMapping
generateServerSeedStaleHash(seed, entropy) ==
    LET hash == hashValue(CombinedSeed(gameVersion, gameId, seed, cardMapping))
    IN  /\ serverSeed' = seed
        /\ cardMapping' = generateCardMapping(entropy)
        /\ serverHash' = hash
        /\ doubleHash' = hashValue(hash)
        /\ lastCall' = Call("generateServerSeed", <<>>, <<>>, "")
        /\ UNCHANGED <<gameId, clientSeeds, positions, commitments>>

generateServerSeed(seed, entropy) ==
    LET mapping == generateCardMapping(entropy)
        hash == hashValue(CombinedSeed(gameVersion, gameId, seed, mapping))
    IN  /\ serverSeed' = seed
        /\ cardMapping' = mapping
        /\ serverHash' = hash
        /\ doubleHash' = hashValue(hash)
        /\ lastCall' = Call("generateServerSeed", <<>>, <<>>, "")
        /\ UNCHANGED <<gameId, clientSeeds, positions, commitments>>

\* SeedTooLong counting characters: len(clientSeed) > 64
SeedTooLongChars(clientSeed) == Len(clientSeed) > 64

\* len(clientSeed.encode('utf-8')) > 64
SeedTooLong(clientSeed) == Len(Utf8Encode(clientSeed)) > 64

\* TableFull with > for >=
TableFullOffByOne == Cardinality(DOMAIN clientSeeds) > MAX_PLAYERS

\* len(self.clientSeeds) >= self.MAX_PLAYERS
TableFull == Cardinality(DOMAIN clientSeeds) >= MAX_PLAYERS

\* processClientSeed storing the commitment before it checks the seed
processClientSeedCommitFirst(playerId, clientSeed, salt) ==
    IF TableFull
    THEN /\ lastCall' = Call("processClientSeed", playerId, clientSeed, "MaxPlayers")
         /\ UNCHANGED gameVars
    ELSE IF SeedTooLong(clientSeed)
    THEN /\ commitments' = DictSet(commitments, playerId,
                hashValue(CommitmentString(gameVersion, gameId, clientSeed, salt)))
         /\ lastCall' = Call("processClientSeed", playerId, clientSeed, "SeedTooLong")
         /\ UNCHANGED <<gameId, serverSeed, serverHash, doubleHash, cardMapping,
                        clientSeeds, positions>>
    ELSE /\ clientSeeds' = DictSet(clientSeeds, playerId,
                                   [seed |-> clientSeed, salt |-> salt])
         /\ commitments' = DictSet(commitments, playerId,
                hashValue(CommitmentString(gameVersion, gameId, clientSeed, salt)))
         /\ lastCall' = Call("processClientSeed", playerId, clientSeed, "")
         /\ UNCHANGED <<gameId, serverSeed, serverHash, doubleHash, cardMapping,
                        positions>>

processClientSeed(playerId, clientSeed, salt) ==
    IF TableFull
    THEN /\ lastCall' = Call("processClientSeed", playerId, clientSeed, "MaxPlayers")
         /\ UNCHANGED gameVars
    ELSE IF SeedTooLong(clientSeed)
    THEN /\ lastCall' = Call("processClientSeed", playerId, clientSeed, "SeedTooLong")
         /\ UNCHANGED gameVars
    ELSE /\ clientSeeds' = DictSet(clientSeeds, playerId,
                                   [seed |-> clientSeed, salt |-> salt])
         /\ commitments' = DictSet(commitments, playerId,
                hashValue(CommitmentString(gameVersion, gameId, clientSeed, salt)))
         /\ lastCall' = Call("processClientSeed", playerId, clientSeed, "")
         /\ UNCHANGED <<gameId, serverSeed, serverHash, doubleHash, cardMapping,
                        positions>>

\* dict(zip(sorted(playerIds), shuffled))
ZipSorted(playerIds, shuffled) ==
    LET order == sorted(playerIds)
    IN  [p \in playerIds |->
            shuffled[CHOOSE i \in 1..Len(order) : order[i] = p]]

\* SeatNumbers as list(range(n))
SeatNumbersFromZero(n) == [i \in 1..n |-> i - 1]

\* list(range(1, n + 1))
SeatNumbers(n) == [i \in 1..n |-> i]

\* assignPositions without the test of self.doubleHash
assignPositionsSeedsOnly(entropy) ==
    IF ~DictTruthy(clientSeeds)
    THEN /\ lastCall' = Call("assignPositions", <<>>, <<>>, "NeedSeeds")
         /\ UNCHANGED gameVars
    ELSE LET playerIds == DOMAIN clientSeeds
             seats == SeatNumbers(Cardinality(playerIds))
             shuffled == secureArrayShuffle(seats, entropy)
         IN  /\ positions' = ZipSorted(playerIds, shuffled)
             /\ lastCall' = Call("assignPositions", <<>>, <<>>, "")
             /\ UNCHANGED <<gameId, serverSeed, serverHash, doubleHash,
                            cardMapping, clientSeeds, commitments>>

assignPositions(entropy) ==
    IF ~DictTruthy(clientSeeds) \/ ~Truthy(doubleHash)
    THEN /\ lastCall' = Call("assignPositions", <<>>, <<>>, "NeedSeeds")
         /\ UNCHANGED gameVars
    ELSE LET playerIds == DOMAIN clientSeeds
             seats == SeatNumbers(Cardinality(playerIds))
             shuffled == secureArrayShuffle(seats, entropy)
         IN  /\ positions' = ZipSorted(playerIds, shuffled)
             /\ lastCall' = Call("assignPositions", <<>>, <<>>, "")
             /\ UNCHANGED <<gameId, serverSeed, serverHash, doubleHash,
                            cardMapping, clientSeeds, commitments>>

\* MiacatPokerSystem.__init__
InitGame ==
    /\ gameId \in GameIds
    /\ serverSeed = None
    /\ serverHash = None
    /\ doubleHash = None
    /\ cardMapping = None
    /\ clientSeeds = EmptyDict
    /\ positions = EmptyDict
    /\ commitments = EmptyDict
    /\ lastCall = Call("init", <<>>, <<>>, "")

\* exportGameData, as the record json.load gives back
exportGameData ==
    [loaded |-> TRUE,
     gameId |-> gameId,
     gameVersion |-> gameVersion,
     serverSeed |-> serverSeed,
     serverHash |-> serverHash,
     doubleHash |-> doubleHash,
     cardMapping |-> cardMapping,
     clientSeeds |-> clientSeeds,
     positions |-> positions,
     commitments |-> commitments]

-----------------------------------------------------------------------------
(* MiacatVerifier *)

\* '0.0.1', '0.0.8'
supportedVersions == {<<48, 46, 48, 46, 49>>, <<48, 46, 48, 46, 56>>}

Whitespace == {9, 10, 11, 12, 13, 32}

RECURSIVE Strip(_)
\* s.strip()
Strip(s) ==
    IF s = <<>> THEN s
    ELSE IF s[1] \in Whitespace THEN Strip(Tail(s))
    ELSE IF s[Len(s)] \in Whitespace THEN Strip(SubSeq(s, 1, Len(s) - 1))
    ELSE s

RECURSIVE IntStr(_)
\* str(n) of an int n >= 0
IntStr(n) ==
    IF n < 10 THEN <<48 + n>> ELSE IntStr(n \div 10) \o <<48 + (n % 10)>>

\* verifyServerHash checking the chain hash in place of the binding string
verifyServerHashChainOnly(data) == hashValue(data.serverHash) = data.doubleHash

verifyServerHash(data) ==
    hashValue(CombinedSeed(data.gameVersion, data.gameId, data.serverSeed,
                           data.cardMapping)) = data.serverHash

verifyDoubleHash(data) == hashValue(data.serverHash) = data.doubleHash

\* verifyPlayerCommitment hashing the seed without the salt
verifyPlayerCommitmentNoSalt(data, playerId) ==
    hashValue(BindingPrefix(data.gameVersion, data.gameId)
              \o Str(data.clientSeeds[playerId].seed))
        = data.commitments[playerId]

verifyPlayerCommitment(data, playerId) ==
    hashValue(CommitmentString(data.gameVersion, data.gameId,
                               data.clientSeeds[playerId].seed,
                               data.clientSeeds[playerId].salt))
        = data.commitments[playerId]

checkVersion(data) ==
    \E v \in supportedVersions : Strip(Str(data.gameVersion)) = Strip(v)

\* what regenerateDeck gives when self.clientSeeds[playerId] raises
KeyError == <<-2>>

\* value.encode('utf-8') raises UnicodeEncodeError for a str that holds a
\* surrogate code point, which json.load gives for an escape as "\ud800"
Encodable(s) == \A i \in 1..Len(s) : s[i] \notin 55296..57343

\* what regenerateDeck gives when hashValue raises
UnicodeEncodeError == <<-3>>

regenerateDeck(data) ==
    IF \E playerId \in DOMAIN data.positions : playerId \notin DOMAIN data.clientSeeds
    THEN KeyError
    ELSE LET order == sorted(DOMAIN data.positions)
             seeds == [i \in 1..Len(order) |->
                         (IF i = 1 THEN <<>> ELSE <<58>>)
                         \o Str(data.clientSeeds[order[i]].seed) \o <<58>>
                         \o IntStr(data.positions[order[i]])]
             finalSeed == BindingPrefix(data.gameVersion, data.gameId)
                          \o Str(data.serverSeed) \o <<58>>
                          \o Join(seeds, 1, Len(seeds))
         IN  IF Encodable(finalSeed) THEN hashValue(finalSeed)
             ELSE UnicodeEncodeError

\* verifyDeck that also requires the seat numbers to be 1..N
verifyDeckSeatsChecked(data) ==
    /\ regenerateDeck(data) \notin {KeyError, UnicodeEncodeError}
    /\ {data.positions[p] : p \in DOMAIN data.positions}
            = 1..Cardinality(DOMAIN data.positions)

\* True unless regenerateDeck raised
verifyDeck(data) == regenerateDeck(data) \notin {KeyError, UnicodeEncodeError}

\* hashValue raises in verifyServerHash, verifyDoubleHash or
\* verifyPlayerCommitment, where nothing catches it; json.dumps escapes the
\* card mapping to ASCII, which always encodes
verifyGameRaises(data) ==
    \/ ~Encodable(BindingPrefix(data.gameVersion, data.gameId) \o Str(data.serverSeed))
    \/ ~Encodable(Str(data.serverHash))
    \/ \E playerId \in DOMAIN data.clientSeeds :
            ~Encodable(Str(data.clientSeeds[playerId].seed)
                       \o Str(data.clientSeeds[playerId].salt))

\* the report of verifyGame on a record whose commitments have the keys of
\* its clientSeeds, or no report when verifyGame raises
verifyGame(data) ==
    IF verifyGameRaises(data)
    THEN [loaded |-> FALSE, raised |-> "UnicodeEncodeError"]
    ELSE [loaded |-> TRUE,
          serverHashValid |-> verifyServerHash(data),
          checkVersionValid |-> checkVersion(data),
          doubleHashValid |-> verifyDoubleHash(data),
          commitmentValid |->
             [playerId \in DOMAIN data.clientSeeds |->
                 verifyPlayerCommitment(data, playerId)],
          deckValid |-> verifyDeck(data)]

\* allValid of verifyPokerGame
allValid(report) ==
    /\ report.serverHashValid
    /\ report.doubleHashValid
    /\ report.checkVersionValid
    /\ report.deckValid
    /\ \A playerId \in DOMAIN report.commitmentValid :
            report.commitmentValid[playerId]

-----------------------------------------------------------------------------
(* generateDeck and the table of demoGame *)

\* list(range(51))
DeckNumbersShort == [i \in 1..51 |-> i - 1]

\* numbers = list(range(52))
DeckNumbers == [i \in 1..52 |-> i - 1]

\* [self.cardMapping[i] for i in finalOrder]
SelectCards(mapping, finalOrder) ==
    [k \in 1..Len(finalOrder) |-> mapping[finalOrder[k] + 1]]

\* generateDeck: finalSeed and deckHash are built as regenerateDeck of the
\* verifier builds them, and deckHash takes no part in the shuffle
generateDeck(entropy) ==
    IF ~(Truthy(serverSeed) /\ Truthy(cardMapping) /\ DictTruthy(positions)
            /\ DictTruthy(clientSeeds))
    THEN /\ lastCall' = Call("generateDeck", <<>>, <<>>, "MissingState")
         /\ UNCHANGED <<gameVars, deck>>
    ELSE LET deckHash == regenerateDeck(exportGameData)
             finalOrder == secureArrayShuffle(DeckNumbers, entropy)
         IN  IF deckHash \in {KeyError, UnicodeEncodeError}
             THEN /\ lastCall' = Call("generateDeck", <<>>, <<>>,
                        IF deckHash = KeyError THEN "KeyError"
                        ELSE "UnicodeEncodeError")
                  /\ UNCHANGED <<gameVars, deck>>
             ELSE /\ deck' = SelectCards(cardMapping, finalOrder)
                  /\ lastCall' = Call("generateDeck", <<>>, <<>>, "")
                  /\ UNCHANGED gameVars

-----------------------------------------------------------------------------
(* PokerHandEvaluator *)

HAND_RANKS ==
    ("Royal Flush" :> 10) @@ ("Straight Flush" :> 9) @@ ("Four of a Kind" :> 8)
    @@ ("Full House" :> 7) @@ ("Flush" :> 6) @@ ("Straight" :> 5)
    @@ ("Three of a Kind" :> 4) @@ ("Two Pair" :> 3) @@ ("One Pair" :> 2)
    @@ ("High Card" :> 1)

\* '2': 2, .., '10': 10, 'Jack': 11, 'Queen': 12, 'King': 13, 'Ace': 14
CARD_VALUES ==
    (<<50>> :> 2) @@ (<<51>> :> 3) @@ (<<52>> :> 4) @@ (<<53>> :> 5)
    @@ (<<54>> :> 6) @@ (<<55>> :> 7) @@ (<<56>> :> 8) @@ (<<57>> :> 9)
    @@ (<<49, 48>> :> 10) @@ (<<74, 97, 99, 107>> :> 11)
    @@ (<<81, 117, 101, 101, 110>> :> 12) @@ (<<75, 105, 110, 103>> :> 13)
    @@ (<<65, 99, 101>> :> 14)

\* items[lo:hi] for 0 <= lo <= hi
Slice(items, lo, hi) ==
    SubSeq(items, lo + 1, IF hi > Len(items) THEN Len(items) ELSE hi)

\* set(items)
SetOf(items) == {items[i] : i \in 1..Len(items)}

\* items.count(x)
Count(items, x) == Cardinality({i \in 1..Len(items) : items[i] = x})

RECURSIVE SortedDescending(_)
\* sorted(S, reverse=True) of a set of int
SortedDescending(S) ==
    IF S = {} THEN <<>>
    ELSE LET m == CHOOSE x \in S : \A y \in S : y <= x
         IN  <<m>> \o SortedDescending(S \ {m})

\* numericValues.sort(reverse=True): every value as often as it occurs
SortReverse(values) ==
    LET unique == SortedDescending(SetOf(values))
    IN  Join([i \in 1..Len(unique) |->
                [k \in 1..Count(values, unique[i]) |-> unique[i]]],
             1, Len(unique))

isOnePair(values) == \E val \in SetOf(values) : Count(values, val) >= 2

isTwoPair(values) ==
    Cardinality({val \in SetOf(values) : Count(values, val) >= 2}) >= 2

isThreeOfKind(values) == \E val \in SetOf(values) : Count(values, val) >= 3

isStraight(values) ==
    LET unique_values == SortedDescending(SetOf(values))
    IN  \/ /\ Len(unique_values) >= 5
           /\ \E i \in 0..(Len(unique_values) - 5) :
                 unique_values[i + 1] - unique_values[i + 5] = 4
        \/ {14, 2, 3, 4, 5} \subseteq SetOf(values)

isFlush(suits) == \E suit \in SetOf(suits) : Count(suits, suit) >= 5

\* isFullHouse asking for a value held exactly three times and one held
\* exactly twice
isFullHouseExact(values) ==
    /\ \E val \in SetOf(values) : Count(values, val) = 3
    /\ \E val \in SetOf(values) : Count(values, val) = 2

isFullHouse(values) == isThreeOfKind(values) /\ isOnePair(values)

isFourOfKind(values) == \E val \in SetOf(values) : Count(values, val) = 4

isStraightFlush(values, suits) == isFlush(suits) /\ isStraight(values)

\* max(values)
Max(values) == CHOOSE x \in SetOf(values) : \A y \in SetOf(values) : y <= x

isRoyalFlush(values, suits) ==
    isStraightFlush(values, suits) /\ Max(values) = 14

\* evaluateHand: the pair (handType, handCards)
evaluateHand(holeCards, communityCards) ==
    LET allCards == holeCards \o communityCards
        values == [i \in 1..Len(allCards) |-> allCards[i].value]
        suits == [i \in 1..Len(allCards) |-> allCards[i].suit]
        numericValues ==
            SortReverse([i \in 1..Len(values) |-> CARD_VALUES[values[i]]])
    IN  IF isRoyalFlush(numericValues, suits)
        THEN <<"Royal Flush", Slice(numericValues, 0, 5)>>
        ELSE IF isStraightFlush(numericValues, suits)
        THEN <<"Straight Flush", Slice(numericValues, 0, 5)>>
        ELSE IF isFourOfKind(numericValues)
        THEN <<"Four of a Kind", Slice(numericValues, 0, 4)>>
        ELSE IF isFullHouse(numericValues)
        THEN <<"Full House", Slice(numericValues, 0, 5)>>
        ELSE IF isFlush(suits)
        THEN <<"Flush", Slice(numericValues, 0, 5)>>
        ELSE IF isStraight(numericValues)
        THEN <<"Straight", Slice(numericValues, 0, 5)>>
        ELSE IF isThreeOfKind(numericValues)
        THEN <<"Three of a Kind", Slice(numericValues, 0, 3)>>
        ELSE IF isTwoPair(numericValues)
        THEN <<"Two Pair", Slice(numericValues, 0, 4)>>
        ELSE IF isOnePair(numericValues)
        THEN <<"One Pair", Slice(numericValues, 0, 2)>>
        ELSE <<"High Card", Slice(numericValues, 0, 1)>>

-----------------------------------------------------------------------------
(* dealCards and showGameResults *)

\* [1] + list(range(2, numPlayers + 1)): the dealer served first
DealOrderDealerFirst(numPlayers) ==
    [k \in 1..(IF numPlayers >= 2 THEN numPlayers ELSE 1) |->
        IF k = 1 THEN 1 ELSE k]

\* list(range(2, numPlayers + 1)) + [1]
DealOrder(numPlayers) ==
    LET others == IF numPlayers >= 2 THEN numPlayers - 1 ELSE 0
    IN  [k \in 1..(others + 1) |-> IF k <= others THEN k + 1 ELSE 1]

\* {pos: player for player, pos in positions.items()}: of two players with
\* one seat the later of the dict's order, the order of the sorted ids, stays
PlayerByPosition(seats) ==
    LET order == sorted(DOMAIN seats)
    IN  [pos \in {seats[p] : p \in DOMAIN seats} |->
            LET last == CHOOSE i \in 1..Len(order) :
                            /\ seats[order[i]] = pos
                            /\ \A j \in (i + 1)..Len(order) : seats[order[j]] # pos
            IN  order[last]]

\* [card['display'] for card in cards]
Displays(cards) == [k \in 1..Len(cards) |-> cards[k].display]

\* dealCards without the burn before the river
dealCardsNoRiverBurn(cards, numPlayers, playerByPosition) ==
    LET order == DealOrder(numPlayers)
        burnFirst == 0 + 1
        round(start) ==
            [k \in 1..Len(order) |->
                [position |-> order[k],
                 player |-> playerByPosition[order[k]],
                 cardDrawn |-> start + (k - 1),
                 cards |-> Displays(Slice(cards, start + (k - 1), start + k))]]
        afterFirst == burnFirst + Len(order)
        afterSecond == afterFirst + Len(order)
        burnFlop == afterSecond + 1
        afterFlop == burnFlop + 3
        burnTurn == afterFlop + 1
        afterTurn == burnTurn + 1
    IN  [loaded |-> TRUE,
         first |-> round(burnFirst),
         second |-> round(afterFirst),
         flop |-> Displays(Slice(cards, burnFlop, burnFlop + 3)),
         turn |-> Displays(Slice(cards, burnTurn, burnTurn + 1)),
         river |-> Displays(Slice(cards, afterTurn, afterTurn + 1)),
         cardDrawn |-> afterTurn]

\* dealCards: what it displays, and cardDrawn at each display and at the end
dealCards(cards, numPlayers, playerByPosition) ==
    LET order == DealOrder(numPlayers)
        burnFirst == 0 + 1
        round(start) ==
            [k \in 1..Len(order) |->
                [position |-> order[k],
                 player |-> playerByPosition[order[k]],
                 cardDrawn |-> start + (k - 1),
                 cards |-> Displays(Slice(cards, start + (k - 1), start + k))]]
        afterFirst == burnFirst + Len(order)
        afterSecond == afterFirst + Len(order)
        burnFlop == afterSecond + 1
        afterFlop == burnFlop + 3
        burnTurn == afterFlop + 1
        afterTurn == burnTurn + 1
        burnRiver == afterTurn + 1
    IN  [loaded |-> TRUE,
         first |-> round(burnFirst),
         second |-> round(afterFirst),
         flop |-> Displays(Slice(cards, burnFlop, burnFlop + 3)),
         turn |-> Displays(Slice(cards, burnTurn, burnTurn + 1)),
         river |-> Displays(Slice(cards, burnRiver, burnRiver + 1)),
         cardDrawn |-> burnRiver]

RECURSIVE ListLess(_, _)
\* a < b for two lists of int
ListLess(a, b) ==
    IF b = <<>> THEN FALSE
    ELSE IF a = <<>> THEN TRUE
    ELSE IF a[1] # b[1] THEN a[1] < b[1]
    ELSE ListLess(Tail(a), Tail(b))

\* the sort key of a result: (HAND_RANKS[handType], handCards)
KeyLess(a, b) ==
    \/ HAND_RANKS[a.handType] < HAND_RANKS[b.handType]
    \/ /\ HAND_RANKS[a.handType] = HAND_RANKS[b.handType]
       /\ ListLess(a.handCards, b.handCards)

RECURSIVE SortResults(_, _)
\* results.sort(key=..., reverse=True) of the first n results: results of
\* equal keys keep their order
SortResults(items, n) ==
    IF n = 0 THEN <<>>
    ELSE LET before == SortResults(items, n - 1)
             x == items[n]
             ahead == Cardinality({i \in 1..Len(before) : ~KeyLess(before[i], x)})
         IN  SubSeq(before, 1, ahead) \o <<x>>
             \o SubSeq(before, ahead + 1, Len(before))

\* the i-th smallest element of a set of int
Nth(S, i) == CHOOSE x \in S : Cardinality({y \in S : y < x}) = i - 1

\* showGameResults: the hands it collects, the board, and the ranking
showGameResults(cards, playerPositions, playerByPosition, numPlayers) ==
    LET order == DealOrder(numPlayers)
        n == Len(order)
        \* the m-th append of the two rounds is made with cardIndex = m
        playerAt(m) == playerByPosition[order[((m - 1) % n) + 1]]
        firstAppends == {m \in 1..n : \A j \in 1..(m - 1) : playerAt(j) # playerAt(m)}
        players == [i \in 1..Cardinality(firstAppends) |->
                        playerAt(Nth(firstAppends, i))]
        appends(player) == {m \in 1..(2 * n) : playerAt(m) = player}
        playerHands ==
            [player \in SetOf(players) |->
                [i \in 1..Cardinality(appends(player)) |->
                    cards[Nth(appends(player), i) + 1]]]
        burnFlop == (1 + 2 * n) + 1
        flop == Slice(cards, burnFlop, burnFlop + 3)
        burnTurn == (burnFlop + 3) + 1
        turn == Slice(cards, burnTurn, burnTurn + 1)
        burnRiver == (burnTurn + 1) + 1
        river == Slice(cards, burnRiver, burnRiver + 1)
        board == flop \o turn \o river
        unsorted ==
            [i \in 1..Len(players) |->
                LET hand == evaluateHand(playerHands[players[i]], board)
                IN  [player |-> players[i],
                     position |-> playerPositions[players[i]],
                     handType |-> hand[1],
                     handCards |-> hand[2],
                     holeCards |-> playerHands[players[i]]]]
    IN  [loaded |-> TRUE,
         playerHands |-> playerHands,
         board |-> board,
         cardIndex |-> burnRiver,
         results |-> SortResults(unsorted, Len(unsorted))]

-----------------------------------------------------------------------------
(* The callers' inputs *)

\* participant ids "p", "o", "n", "px", "ox", "nx", "pxx", ..: the order in
\* which they are offered is not their sorted order
PlayerId(i) == <<112 - (i % 3)>> \o Repeat(120, i \div 3)

\* "Seal" and "Eddie", two of the players of demoGame
PlayerIds == {<<83, 101, 97, 108>>, <<69, 100, 100, 105, 101>>}

\* client seeds of 64 and 65 ASCII bytes, and of 32 and 33 two-byte
\* characters (64 and 66 bytes)
ClientSeeds == {Repeat(97, 64), Repeat(97, 65), Repeat(233, 32), Repeat(233, 33)}

NoRecord == [loaded |-> FALSE]

InitVerifier ==
    /\ gameData = NoRecord
    /\ results = NoRecord
    /\ baseline = NoRecord

\* demoGame before it has a deck, and no hand evaluated yet
InitTable ==
    /\ deck = None
    /\ dealt = NoRecord
    /\ shown = NoRecord
    /\ evaluated = NoRecord

Init == InitGame /\ InitVerifier /\ InitTable

\* demoGame writes game_data.json from exportGameData, verifyPokerGame loads it
ExportGameData ==
    /\ ~gameData.loaded
    /\ gameData' = exportGameData
    /\ UNCHANGED <<gameVars, lastCall, results, baseline, tableVars>>

\* MiacatVerifier(gameData).verifyGame()
VerifyGame ==
    /\ gameData.loaded
    /\ results' = verifyGame(gameData)
    /\ UNCHANGED <<gameVars, lastCall, gameData, baseline, tableVars>>

\* the text s with its first or its last character changed, or with a
\* character added
TamperedStrings(s) ==
    {[s EXCEPT ![1] = IF @ = 48 THEN 49 ELSE 48],
     [s EXCEPT ![Len(s)] = IF @ = 48 THEN 49 ELSE 48],
     s \o <<58>>}

\* the card list with its first two cards exchanged, or with the value of its
\* last card replaced
TamperedMappings(mapping) ==
    {Swap(mapping, 0, 1),
     [mapping EXCEPT ![Len(mapping)].value = IF @ = VALUES[1] THEN VALUES[2]
                                            ELSE VALUES[1]]}

\* the record a tampering leaves, and what it changed; a record is tampered
\* with once, after it was verified
Tampered(data, field, playerId) ==
    /\ gameData.loaded
    /\ results.loaded
    /\ ~baseline.loaded
    /\ data # gameData
    /\ gameData' = data
    /\ results' = NoRecord
    /\ baseline' = [loaded |-> TRUE, results |-> results, field |-> field,
                    playerId |-> playerId]
    /\ UNCHANGED <<gameVars, lastCall, tableVars>>

\* game_data.json is edited before verifyPokerGame loads it: one of the
\* revealed values is changed
TamperServerSeed ==
    /\ gameData.loaded
    /\ gameData.serverSeed # None
    /\ \E seed \in TamperedStrings(gameData.serverSeed) :
            Tampered([gameData EXCEPT !.serverSeed = seed], "serverSeed", <<>>)

TamperCardMapping ==
    /\ gameData.loaded
    /\ gameData.cardMapping # None
    /\ \E mapping \in TamperedMappings(gameData.cardMapping) :
            Tampered([gameData EXCEPT !.cardMapping = mapping], "cardMapping", <<>>)

TamperClientSeed ==
    /\ gameData.loaded
    /\ \E playerId \in DOMAIN gameData.clientSeeds :
        \E seed \in TamperedStrings(gameData.clientSeeds[playerId].seed) :
            Tampered([gameData EXCEPT !.clientSeeds[playerId].seed = seed],
                     "seed", playerId)

TamperSalt ==
    /\ gameData.loaded
    /\ \E playerId \in DOMAIN gameData.clientSeeds :
        \E salt \in TamperedStrings(gameData.clientSeeds[playerId].salt) :
            Tampered([gameData EXCEPT !.clientSeeds[playerId].salt = salt],
                     "salt", playerId)

Next ==
    \/ \E seed \in ServerSeeds, entropy \in Entropies :
            generateServerSeed(seed, entropy) /\ UNCHANGED <<verifierVars, tableVars>>
    \/ \E playerId \in PlayerIds, clientSeed \in ClientSeeds, salt \in Salts :
            processClientSeed(playerId, clientSeed, salt) /\ UNCHANGED <<verifierVars, tableVars>>
    \/ \E entropy \in Entropies :
            assignPositions(entropy) /\ UNCHANGED <<verifierVars, tableVars>>

Spec == Init /\ [][Next]_vars

-----------------------------------------------------------------------------
(* SpecDeck: one game on which generateServerSeed is called again and     *)
(* again, the draws of the card shuffle ranging over many more outcomes.   *)

\* entropies whose digits differ in the first six draws of a 52-card shuffle
DeckEntropies == {k * 9999991 : k \in 0..MaxDeckEntropy}

NextDeck ==
    \E entropy \in DeckEntropies :
        generateServerSeed(TokenHex(32, 0), entropy) /\ UNCHANGED <<verifierVars, tableVars>>

SpecDeck == Init /\ [][NextDeck]_vars

-----------------------------------------------------------------------------
(* SpecCap: one game filled to its capacity. Participants join in the     *)
(* order of PlayerId, any committed participant may commit again, and at   *)
(* every point the next participant not yet committed may try to join.     *)

SeatEntropies == 0..MaxSeatEntropy

NextCap ==
    \/ generateServerSeed(TokenHex(32, 0), 0) /\ UNCHANGED <<verifierVars, tableVars>>
    \/ \E i \in 0..(NumCapPlayerIds - 1) :
            /\ i <= Cardinality(DOMAIN clientSeeds)
            /\ processClientSeed(PlayerId(i), Repeat(97, 64), TokenHex(16, 0))
            /\ UNCHANGED <<verifierVars, tableVars>>
    \/ \E entropy \in SeatEntropies :
            assignPositions(entropy) /\ UNCHANGED <<verifierVars, tableVars>>

SpecCap == Init /\ [][NextCap]_vars

-----------------------------------------------------------------------------
(* SpecVerify: a game is played, its record is exported once, and the      *)
(* record is verified, tampered with in one revealed value, and verified   *)
(* again.                                                                  *)

NextVerify ==
    \/ /\ ~gameData.loaded
       /\ \E entropy \in Entropies : generateServerSeed(TokenHex(32, 0), entropy)
       /\ UNCHANGED <<verifierVars, tableVars>>
    \/ /\ ~gameData.loaded
       /\ \E playerId \in PlayerIds, clientSeed \in {Repeat(97, 64), Repeat(233, 32)} :
             processClientSeed(playerId, clientSeed, TokenHex(16, 0))
       /\ UNCHANGED <<verifierVars, tableVars>>
    \/ /\ ~gameData.loaded
       /\ \E entropy \in Entropies : assignPositions(entropy)
       /\ UNCHANGED <<verifierVars, tableVars>>
    \/ ExportGameData
    \/ VerifyGame
    \/ TamperServerSeed
    \/ TamperCardMapping
    \/ TamperClientSeed
    \/ TamperSalt

SpecVerify == Init /\ [][NextVerify]_vars

-----------------------------------------------------------------------------
(* SpecDeckCheck: as SpecVerify, and the record may also be tampered with  *)
(* in a seat number or by removing a participant's seed entry.             *)

\* a seat number of the record is changed, to 0 or to the next number
TamperPosition ==
    /\ gameData.loaded
    /\ \E playerId \in DOMAIN gameData.positions :
        \E pos \in {0, gameData.positions[playerId] + 1} :
            Tampered([gameData EXCEPT !.positions[playerId] = pos],
                     "position", playerId)

\* the clientSeeds entry of a participant is removed from the record
TamperDropSeed ==
    /\ gameData.loaded
    /\ \E playerId \in DOMAIN gameData.clientSeeds :
            Tampered([gameData EXCEPT !.clientSeeds =
                        [p \in (DOMAIN @) \ {playerId} |-> @[p]]],
                     "dropped", playerId)

\* the seed of a participant is replaced by the text json.load gives for
\* "\ud800", a surrogate code point
TamperSeedUnencodable ==
    /\ gameData.loaded
    /\ \E playerId \in DOMAIN gameData.clientSeeds :
            Tampered([gameData EXCEPT !.clientSeeds[playerId].seed = <<55296>>],
                     "seed", playerId)

\* MiacatVerifier(gameData).verifyDeck(), called on its own
VerifyDeck ==
    /\ gameData.loaded
    /\ results' = [loaded |-> TRUE, deckValid |-> verifyDeck(gameData)]
    /\ UNCHANGED <<gameVars, lastCall, gameData, baseline, tableVars>>

NextDeckCheck ==
    \/ /\ ~gameData.loaded
       /\ \E entropy \in Entropies : generateServerSeed(TokenHex(32, 0), entropy)
       /\ UNCHANGED <<verifierVars, tableVars>>
    \/ /\ ~gameData.loaded
       /\ \E playerId \in PlayerIds :
             processClientSeed(playerId, Repeat(97, 64), TokenHex(16, 0))
       /\ UNCHANGED <<verifierVars, tableVars>>
    \/ /\ ~gameData.loaded
       /\ \E entropy \in Entropies : assignPositions(entropy)
       /\ UNCHANGED <<verifierVars, tableVars>>
    \/ ExportGameData
    \/ VerifyGame
    \/ TamperServerSeed
    \/ TamperCardMapping
    \/ TamperClientSeed
    \/ TamperPosition
    \/ TamperDropSeed
    \/ TamperSeedUnencodable
    \/ VerifyDeck

SpecDeckCheck == Init /\ [][NextDeckCheck]_vars

-----------------------------------------------------------------------------
(* SpecHonest: any sequence of generateServerSeed, processClientSeed,      *)
(* assignPositions and generateDeck calls on one game, whose record is     *)
(* then exported and verified as it is.                                    *)

NextHonest ==
    \/ /\ ~gameData.loaded
       /\ \E entropy \in Entropies : generateServerSeed(TokenHex(32, 0), entropy)
       /\ UNCHANGED <<verifierVars, tableVars>>
    \/ /\ ~gameData.loaded
       /\ \E playerId \in PlayerIds, clientSeed \in {Repeat(97, 64), Repeat(233, 33)} :
             processClientSeed(playerId, clientSeed, TokenHex(16, 0))
       /\ UNCHANGED <<verifierVars, tableVars>>
    \/ /\ ~gameData.loaded
       /\ \E entropy \in Entropies : assignPositions(entropy)
       /\ UNCHANGED <<verifierVars, tableVars>>
    \/ /\ ~gameData.loaded
       /\ generateDeck(9999991)
       /\ UNCHANGED <<verifierVars, dealt, shown, evaluated>>
    \/ ExportGameData
    \/ VerifyGame

SpecHonest == Init /\ [][NextHonest]_vars

-----------------------------------------------------------------------------
(* SpecDeal: demoGame with one to nine players. The house commits, the     *)
(* players commit one after the other, seats are assigned, the deck is     *)
(* derived, dealCards displays the deal and showGameResults ranks it.      *)

\* f"secret_seed_{player}"
SecretSeed(player) ==
    <<115, 101, 99, 114, 101, 116, 95, 115, 101, 101, 100, 95>> \o player

\* the draws of the deck shuffle of generateDeck
DrawEntropies == {k * 9999991 : k \in 0..MaxDrawEntropy}

\* deck = game.generateDeck()
GenerateDeck ==
    /\ \E entropy \in DrawEntropies : generateDeck(entropy)
    /\ UNCHANGED <<verifierVars, dealt, shown, evaluated>>

\* dealCards(game, deck, len(players), playerByPosition)
DealCards ==
    /\ deck # None
    /\ ~dealt.loaded
    /\ dealt' = dealCards(deck, Cardinality(DOMAIN clientSeeds),
                          PlayerByPosition(positions))
    /\ UNCHANGED <<gameVars, lastCall, verifierVars, deck, shown, evaluated>>

\* showGameResults(deck, positions, playerByPosition, len(players))
ShowGameResults ==
    /\ dealt.loaded
    /\ ~shown.loaded
    /\ shown' = showGameResults(deck, positions, PlayerByPosition(positions),
                                Cardinality(DOMAIN clientSeeds))
    /\ UNCHANGED <<gameVars, lastCall, verifierVars, deck, dealt, evaluated>>

NextDeal ==
    \/ /\ serverSeed = None
       /\ generateServerSeed(TokenHex(32, 0), 9999991)
       /\ UNCHANGED <<verifierVars, tableVars>>
    \/ /\ doubleHash # None
       /\ ~DictTruthy(positions)
       /\ Cardinality(DOMAIN clientSeeds) < MAX_PLAYERS
       /\ LET player == PlayerId(Cardinality(DOMAIN clientSeeds))
          IN  processClientSeed(player, SecretSeed(player), TokenHex(16, 0))
       /\ UNCHANGED <<verifierVars, tableVars>>
    \/ /\ DictTruthy(clientSeeds)
       /\ ~DictTruthy(positions)
       /\ \E entropy \in SeatEntropies : assignPositions(entropy)
       /\ UNCHANGED <<verifierVars, tableVars>>
    \/ /\ DictTruthy(positions)
       /\ deck = None
       /\ GenerateDeck
    \/ DealCards
    \/ ShowGameResults

SpecDeal == Init /\ [][NextDeal]_vars

-----------------------------------------------------------------------------
(* SpecEval: evaluateHand on two hole cards and a board of five, the hole  *)
(* cards any two cards of the deck that are not on the board.              *)

\* the card of VALUES[value] and SUITS[suit]
Card(value, suit) == CanonicalCards[(suit - 1) * Len(VALUES) + value]

\* boards: 2c 2s 5h 9d Kc and Qs Js 10s 2h 3d, the boards of the two examples
\* of hand evaluation; five hearts 2 3 4 5 9; 5h 5d 5c with Ks Kd, and with
\* 9s Kd; 10h Jh Qh with Kd Ad
Boards ==
    {<<Card(2, 3), Card(2, 4), Card(5, 1), Card(9, 2), Card(13, 3)>>,
     <<Card(12, 4), Card(11, 4), Card(10, 4), Card(2, 1), Card(3, 2)>>,
     <<Card(2, 1), Card(3, 1), Card(4, 1), Card(5, 1), Card(9, 1)>>,
     <<Card(5, 1), Card(5, 2), Card(5, 3), Card(13, 4), Card(13, 2)>>,
     <<Card(5, 1), Card(5, 2), Card(5, 3), Card(9, 4), Card(13, 2)>>,
     <<Card(10, 1), Card(11, 1), Card(12, 1), Card(13, 2), Card(1, 2)>>}

\* a hand is dealt and not yet evaluated
InitEval ==
    /\ InitGame
    /\ InitVerifier
    /\ deck = None
    /\ dealt = NoRecord
    /\ shown = NoRecord
    /\ \E board \in Boards :
        \E i \in 1..Len(CanonicalCards), j \in 1..Len(CanonicalCards) :
            /\ i < j
            /\ CanonicalCards[i] \notin SetOf(board)
            /\ CanonicalCards[j] \notin SetOf(board)
            /\ evaluated = [loaded |-> FALSE,
                            holeCards |-> <<CanonicalCards[i], CanonicalCards[j]>>,
                            communityCards |-> board]

\* handType, handCards = evaluator.evaluateHand(holeCards, board)
EvaluateHand ==
    /\ ~evaluated.loaded
    /\ LET hand == evaluateHand(evaluated.holeCards, evaluated.communityCards)
       IN  evaluated' = [evaluated EXCEPT !.loaded = TRUE] @@
                        [handType |-> hand[1], handCards |-> hand[2]]
    /\ UNCHANGED <<gameVars, lastCall, verifierVars, deck, dealt, shown>>

NextEval == EvaluateHand

SpecEval == InitEval /\ [][NextEval]_vars

-----------------------------------------------------------------------------
(* Claims on the commit stages, under Spec *)

\* generateServerSeed has succeeded for this game
HouseCommitted == doubleHash # None

CommittedIds == DOMAIN clientSeeds

\* C1: once generateServerSeed has succeeded, no later step changes the house
\* seed, the card-identity permutation, houseCommitHash or
\* houseCommitChainHash.
C1_HouseCommitmentComputedOnce ==
    [][HouseCommitted =>
        /\ serverSeed' = serverSeed
        /\ cardMapping' = cardMapping
        /\ serverHash' = serverHash
        /\ doubleHash' = doubleHash]_vars

\* C2: a non-empty set of participant commitments implies that
\* houseCommitChainHash is set (processClientSeed fails before the house
\* commitment).
C2_HouseCommitBeforePlayerCommit ==
    DOMAIN commitments # {} => HouseCommitted

\* C3: a committed participant's seed, salt and commitment are never changed
\* by a later step.
C3_CommittedEntryImmutable ==
    [][\A p \in CommittedIds :
        /\ p \in DOMAIN clientSeeds'
        /\ clientSeeds'[p] = clientSeeds[p]
        /\ p \in DOMAIN commitments'
        /\ commitments'[p] = commitments[p]]_vars

\* C5: with fewer than 9 committed participants, a processClientSeed call whose
\* seed encodes to at most 64 bytes succeeds and stores the seed, and one whose
\* seed encodes to 65 bytes or more fails with the seed-too-long error and
\* changes nothing of the game.
C5_SeedLengthLimit ==
    [][(lastCall'.op = "processClientSeed"
            /\ Cardinality(CommittedIds) < MAX_PLAYERS) =>
        LET L == Len(Utf8Encode(lastCall'.clientSeed))
            p == lastCall'.playerId
        IN  /\ L <= 64 =>
                /\ lastCall'.error = ""
                /\ p \in DOMAIN clientSeeds'
                /\ clientSeeds'[p].seed = lastCall'.clientSeed
                /\ p \in DOMAIN commitments'
            /\ L >= 65 =>
                /\ lastCall'.error = "SeedTooLong"
                /\ UNCHANGED gameVars]_vars

\* a call with 33 two-byte characters (66 bytes) has just failed in a game
\* that holds a seed of exactly 64 bytes
C5_Witness ==
    /\ lastCall.op = "processClientSeed"
    /\ lastCall.error = "SeedTooLong"
    /\ Len(lastCall.clientSeed) = 33
    /\ Cardinality(CommittedIds) < MAX_PLAYERS
    /\ \E p \in CommittedIds : Len(Utf8Encode(clientSeeds[p].seed)) = 64

\* C4: the number of committed participants never exceeds 9, and a
\* processClientSeed call made when 9 participants are committed fails, for a
\* new id and for a committed id alike, and changes nothing of the game.
\* (Under SpecCap.)
C4_CapacityNeverExceeded ==
    [][/\ Cardinality(DOMAIN clientSeeds') <= 9
       /\ Cardinality(DOMAIN commitments') <= 9
       /\ (lastCall'.op = "processClientSeed" /\ Cardinality(CommittedIds) >= 9) =>
            /\ lastCall'.error = "MaxPlayers"
            /\ UNCHANGED gameVars]_vars

\* the tenth participant has just been turned away from a game with seats
C4_Witness ==
    /\ lastCall.op = "processClientSeed"
    /\ lastCall.error = "MaxPlayers"
    /\ lastCall.playerId \notin CommittedIds
    /\ Cardinality(CommittedIds) = 9
    /\ Cardinality(DOMAIN positions) = 9

\* C6: whenever seatAssignment is non-empty, the seated participant ids are
\* exactly the committed participant ids.
C6_SeatedAreExactlyCommitted ==
    DictTruthy(positions) => DOMAIN positions = CommittedIds

\* C7: seatAssignment is empty, or a bijection from its participant ids onto
\* 1..N, N the number of seated participants, N <= 9. (Under SpecCap.)
C7_SeatsAreBijection ==
    \/ ~DictTruthy(positions)
    \/ LET N == Cardinality(DOMAIN positions)
       IN  /\ N <= 9
           /\ {positions[p] : p \in DOMAIN positions} = 1..N

\* nine participants are seated, out of the sorted order of their ids
C7_Witness ==
    /\ lastCall.op = "assignPositions"
    /\ Cardinality(DOMAIN positions) = 9
    /\ \E p, q \in DOMAIN positions :
            p # q /\ StrLeq(p, q) /\ positions[p] > positions[q]

\* C8: whenever cardIdentityPermutation is set it has 52 entries and holds
\* each (value, suit) of the 13 values and 4 suits exactly once. (Under
\* SpecDeck.)
C8_MappingIsPermutationOfDeck ==
    cardMapping # None =>
        /\ Len(cardMapping) = 52
        /\ \A i \in 1..Len(SUITS), j \in 1..Len(VALUES) :
               Cardinality({k \in 1..Len(cardMapping) :
                   /\ cardMapping[k].suit = SUITS[i]
                   /\ cardMapping[k].value = VALUES[j]
                   /\ cardMapping[k].display = VALUES[j] \o SUITS[i]}) = 1

\* a shuffle has moved the first and the last card of the canonical order
C8_Witness ==
    /\ cardMapping # None
    /\ cardMapping[1] # CanonicalCards[1]
    /\ cardMapping[52] # CanonicalCards[52]
    /\ cardMapping[2] # CanonicalCards[2]

\* C9: after generateServerSeed, houseCommitChainHash is the digest of
\* houseCommitHash, and houseCommitHash the digest of the binding string of
\* the protocol version, gameId, houseSeed and cardIdentityPermutation.
C9_HouseHashesBindSeedAndMapping ==
    HouseCommitted =>
        /\ doubleHash = hashValue(serverHash)
        /\ serverHash =
               hashValue(CombinedSeed(gameVersion, gameId, serverSeed, cardMapping))

\* a second generateServerSeed, made after a participant committed, has
\* replaced the seed or the permutation
C9_Witness ==
    /\ HouseCommitted
    /\ lastCall.op = "generateServerSeed"
    /\ CommittedIds # {}
    /\ DictTruthy(positions)

-----------------------------------------------------------------------------
(* Claims on the verifier, under SpecVerify *)

\* the report that differs from the report before the tampering in the one
\* check of the tampered value
ExpectedAfterTampering ==
    IF baseline.field \in {"serverSeed", "cardMapping"}
    THEN [baseline.results EXCEPT !.serverHashValid = FALSE]
    ELSE [baseline.results EXCEPT !.commitmentValid[baseline.playerId] = FALSE]

-----------------------------------------------------------------------------
(* Claims on seat assignment and on the key sets, under SpecCap and Spec *)

\* C11: assignPositions succeeds only in a state with at least one committed
\* participant and with the house chain hash produced, and it succeeds in
\* every such state; in any other state it fails and leaves seatAssignment and
\* every other field of the game unchanged. (Under SpecCap.)
C11_AssignSeatsPrecondition ==
    [][lastCall'.op = "assignPositions" =>
        IF CommittedIds # {} /\ HouseCommitted
        THEN /\ lastCall'.error = ""
             /\ DOMAIN positions' = CommittedIds
        ELSE /\ lastCall'.error = "NeedSeeds"
             /\ UNCHANGED gameVars]_vars

\* assignPositions has just failed in a game that has committed participants
\* and no house commitment
C11_Witness ==
    /\ lastCall.op = "assignPositions"
    /\ lastCall.error = "NeedSeeds"
    /\ CommittedIds # {}
    /\ ~HouseCommitted
    /\ ~DictTruthy(positions)

\* C15: participantCommitments and participantSeeds always have the same
\* key set: a successful processClientSeed sets the entry of its id in both,
\* and a failed call changes neither.
C15_CommitmentAndSeedKeysAgree ==
    [][/\ DOMAIN commitments' = DOMAIN clientSeeds'
       /\ lastCall'.op = "processClientSeed" =>
            IF lastCall'.error = ""
            THEN /\ DOMAIN clientSeeds' = CommittedIds \cup {lastCall'.playerId}
                 /\ clientSeeds'[lastCall'.playerId].seed = lastCall'.clientSeed
                 /\ commitments'[lastCall'.playerId] =
                        hashValue(CommitmentString(gameVersion, gameId,
                            lastCall'.clientSeed,
                            clientSeeds'[lastCall'.playerId].salt))
            ELSE /\ clientSeeds' = clientSeeds
                 /\ commitments' = commitments]_vars

\* a call for a new id has just failed in a game that holds one commitment
C15_Witness ==
    /\ lastCall.op = "processClientSeed"
    /\ lastCall.error # ""
    /\ lastCall.playerId \notin CommittedIds
    /\ Cardinality(CommittedIds) = 1
    /\ DOMAIN commitments = CommittedIds

-----------------------------------------------------------------------------
(* Claims on the deck and the deal, under SpecDeal *)

\* C12: whenever generateDeck has succeeded, the deck it returned has exactly
\* 52 entries and holds every element of cardIdentityPermutation exactly
\* once, whatever the draws of the shuffle were.
C12_DeckIsPermutationOfMapping ==
    deck # None =>
        /\ Len(deck) = 52
        /\ Len(cardMapping) = 52
        /\ \A k \in 1..Len(cardMapping) :
               Cardinality({i \in 1..Len(deck) : deck[i] = cardMapping[k]}) = 1

\* a deck whose first and last cards are not those of the permutation
C12_Witness ==
    /\ deck # None
    /\ lastCall.op = "generateDeck"
    /\ lastCall.error = ""
    /\ deck[1] # cardMapping[1]
    /\ deck[52] # cardMapping[52]

\* the number of players at the table of demoGame
NumPlayers == Cardinality(DOMAIN positions)

\* the deal was displayed and ranked for a table whose seats are a bijection
\* onto 1..N
TableDealt ==
    /\ dealt.loaded
    /\ shown.loaded
    /\ NumPlayers \in 1..9
    /\ {positions[p] : p \in DOMAIN positions} = 1..NumPlayers

\* C13, as claimed: the deal consumes exactly 2N + 3 + 5 cards, so that the
\* river is the deck card at index 2N + 7.
C13_DealConsumes2NPlus8 ==
    TableDealt =>
        /\ dealt.cardDrawn + 1 = 2 * NumPlayers + 3 + 5
        /\ shown.cardIndex + 1 = 2 * NumPlayers + 3 + 5
        /\ dealt.river = <<deck[(2 * NumPlayers + 7) + 1].display>>
        /\ shown.board[5] = deck[(2 * NumPlayers + 7) + 1]

\* C13, amended: for every participant count N in 1..9 the deal consumes
\* exactly 2N + 4 + 5 cards of the deck (4 burns, 5 community cards, 2N hole
\* cards), so that the river is the deck card at index 2N + 8, in dealCards
\* and in showGameResults alike.
C13_DealConsumes2NPlus9 ==
    TableDealt =>
        /\ dealt.cardDrawn + 1 = 2 * NumPlayers + 4 + 5
        /\ shown.cardIndex + 1 = 2 * NumPlayers + 4 + 5
        /\ Len(dealt.first) + Len(dealt.second) = 2 * NumPlayers
        /\ Len(dealt.flop) + Len(dealt.turn) + Len(dealt.river) = 5
        /\ dealt.river = <<deck[(2 * NumPlayers + 8) + 1].display>>
        /\ Len(shown.board) = 5
        /\ shown.board[5] = deck[(2 * NumPlayers + 8) + 1]

\* a table of nine players was dealt and ranked
C13_Witness ==
    /\ TableDealt
    /\ NumPlayers = 9
    /\ dealt.cardDrawn = 26

\* the participant on seat s
Seated(s) == CHOOSE p \in DOMAIN positions : positions[p] = s

\* the deck indices of the two hole cards of seat s
FirstHoleIndex(s) == IF s >= 2 THEN s - 1 ELSE NumPlayers
SecondHoleIndex(s) == IF s >= 2 THEN NumPlayers + s - 1 ELSE 2 * NumPlayers

\* the cards dealCards displayed, hole cards and community cards
DisplayedCards ==
    {dealt.first[k].cards : k \in 1..Len(dealt.first)}
    \cup {dealt.second[k].cards : k \in 1..Len(dealt.second)}
    \cup {<<dealt.flop[k]>> : k \in 1..Len(dealt.flop)}
    \cup {dealt.turn, dealt.river}

\* C14: for every N in 1..9 and every seat bijection onto 1..N, dealCards and
\* showGameResults give hole cards in the order seat 2, 3, .., N, 1 in each of
\* two rounds after one burn: seat s >= 2 gets the deck indices s - 1 and
\* N + s - 1, seat 1 gets N and 2N. Every participant receives exactly two
\* hole cards; the 2N hole cards and the 5 community cards are pairwise
\* distinct cards of the deck at indices below 52, and the displayed deal and
\* the evaluated hands are the same cards.
C14_HoleCardOrder ==
    TableDealt =>
        LET N == NumPlayers
        IN  /\ Len(dealt.first) = N
            /\ Len(dealt.second) = N
            /\ \A k \in 1..N :
                  /\ dealt.first[k].position = (IF k < N THEN k + 1 ELSE 1)
                  /\ dealt.second[k].position = dealt.first[k].position
            /\ \A k \in 1..N :
                  LET s == dealt.first[k].position
                  IN  /\ dealt.first[k].player = Seated(s)
                      /\ dealt.second[k].player = Seated(s)
                      /\ dealt.first[k].cardDrawn = FirstHoleIndex(s)
                      /\ dealt.second[k].cardDrawn = SecondHoleIndex(s)
                      /\ dealt.first[k].cards = <<deck[FirstHoleIndex(s) + 1].display>>
                      /\ dealt.second[k].cards = <<deck[SecondHoleIndex(s) + 1].display>>
            /\ DOMAIN shown.playerHands = DOMAIN positions
            /\ \A s \in 1..N :
                  shown.playerHands[Seated(s)] =
                      <<deck[FirstHoleIndex(s) + 1], deck[SecondHoleIndex(s) + 1]>>
            /\ \A i \in 1..Len(shown.results) :
                  shown.results[i].holeCards =
                      shown.playerHands[shown.results[i].player]
            /\ Displays(shown.board) = dealt.flop \o dealt.turn \o dealt.river
            /\ dealt.cardDrawn < 52
            /\ Cardinality(DisplayedCards) = 2 * N + 5

\* nine players, the one on seat 1 not the first of the sorted ids, were
\* dealt from a shuffled deck
C14_Witness ==
    /\ TableDealt
    /\ NumPlayers = 9
    /\ Seated(1) # sorted(DOMAIN positions)[1]
    /\ deck[1] # cardMapping[1]

-----------------------------------------------------------------------------
(* Claims on hand evaluation, under SpecEval *)

\* the seven cards of the evaluated hand
HandCards == SetOf(evaluated.holeCards \o evaluated.communityCards)

\* the cards of the hand that have the value VALUES[value]
OfValue(value) == {card \in HandCards : card.value = VALUES[value]}

\* the values 1 (Ace low), 2, .., 13, 14 (Ace high) that the cards of one suit
\* of the hand have
ValuesOfSuit(suit) ==
    {value \in 1..14 :
        \E card \in HandCards :
            /\ card.suit = SUITS[suit]
            /\ card.value = VALUES[IF value = 14 THEN 1 ELSE value]}

\* five cards of one single suit have five consecutive values
HasStraightFlush ==
    \E suit \in 1..Len(SUITS), low \in 1..10 :
        low..(low + 4) \subseteq ValuesOfSuit(suit)

\* one suit holds 10, Jack, Queen, King and Ace
HasRoyalFlush ==
    \E suit \in 1..Len(SUITS) : 10..14 \subseteq ValuesOfSuit(suit)

\* C16: evaluateHand returns 'Straight Flush' or 'Royal Flush' only when five
\* cards of one single suit have five consecutive values (A-2-3-4-5 counting
\* as consecutive), and 'Royal Flush' only when one suit holds 10, Jack,
\* Queen, King and Ace.
C16_StraightFlushInOneSuit ==
    evaluated.loaded =>
        /\ evaluated.handType \in {"Straight Flush", "Royal Flush"} =>
                HasStraightFlush
        /\ evaluated.handType = "Royal Flush" => HasRoyalFlush

\* three cards of one value and two cards of a different value
HasTripleAndPair ==
    \E x \in 1..Len(VALUES), y \in 1..Len(VALUES) :
        /\ x # y
        /\ Cardinality(OfValue(x)) >= 3
        /\ Cardinality(OfValue(y)) >= 2

\* C17: for seven distinct cards that hold three cards of one value and two
\* cards of a different value, evaluateHand never returns 'Three of a Kind':
\* it returns 'Full House' or a stronger category.
C17_TripleAndPairIsFullHouse ==
    (evaluated.loaded /\ HasTripleAndPair) =>
        /\ evaluated.handType # "Three of a Kind"
        /\ HAND_RANKS[evaluated.handType] >= HAND_RANKS["Full House"]

\* a hand of two triples and a seventh card was ranked a full house
C17_Witness ==
    /\ evaluated.loaded
    /\ HasTripleAndPair
    /\ evaluated.handType = "Full House"
    /\ Cardinality({x \in 1..Len(VALUES) : Cardinality(OfValue(x)) = 3}) = 2

\* C18: whenever evaluateHand returns 'Four of a Kind', the leading tiebreak
\* value it returns is the value of the four equal cards (2 for
\* 2,2,2,2,5,9,King), not the highest value among the seven cards.
C18_QuadValueLeadsTiebreak ==
    (evaluated.loaded /\ evaluated.handType = "Four of a Kind") =>
        \E x \in 1..Len(VALUES) :
            /\ Cardinality(OfValue(x)) = 4
            /\ evaluated.handCards[1] = CARD_VALUES[VALUES[x]]

\* the values 1 (Ace low), 2, .., 13, 14 (Ace high) that the cards of the hand
\* have, whatever their suits
ValuesOfHand ==
    {value \in 1..14 :
        \E card \in HandCards :
            card.value = VALUES[IF value = 14 THEN 1 ELSE value]}

\* five cards of the hand have five consecutive values
HasStraight == \E low \in 1..10 : low..(low + 4) \subseteq ValuesOfHand

\* five cards of the hand have one suit
HasFiveOfOneSuit ==
    \E suit \in 1..Len(SUITS) :
        Cardinality({card \in HandCards : card.suit = SUITS[suit]}) >= 5

\* the only value the hand holds more than once is held exactly three times
OnlyRepeatIsOneTriple ==
    \E x \in 1..Len(VALUES) :
        /\ Cardinality(OfValue(x)) = 3
        /\ \A y \in 1..Len(VALUES) : y # x => Cardinality(OfValue(y)) <= 1

\* C21: evaluateHand returns 'Full House' only if the seven cards hold three
\* cards of one value and at least two cards of a different value; seven cards
\* whose only repeated value is a single triple, with no straight and no five
\* cards of one suit, are ranked 'Three of a Kind'.
C21_FullHouseNeedsSeparatePair ==
    evaluated.loaded =>
        /\ evaluated.handType = "Full House" => HasTripleAndPair
        /\ (OnlyRepeatIsOneTriple /\ ~HasStraight /\ ~HasFiveOfOneSuit) =>
                evaluated.handType = "Three of a Kind"

-----------------------------------------------------------------------------
(* Claims on the deck check and on honest records *)

\* every participant id of the seat assignment has an entry in
\* participantSeeds
SeatedHaveSeeds == DOMAIN gameData.positions \subseteq DOMAIN gameData.clientSeeds

\* the texts regenerateDeck hashes hold no code point that UTF-8 cannot encode
DeckTextEncodable ==
    /\ Encodable(Str(gameData.gameVersion) \o Str(gameData.gameId)
                 \o Str(gameData.serverSeed))
    /\ \A p \in DOMAIN gameData.positions :
            p \in DOMAIN gameData.clientSeeds =>
                Encodable(Str(gameData.clientSeeds[p].seed))

\* C19, as claimed: verifyDeck returns true for every record in which each
\* participant id of the seat assignment has an entry in participantSeeds,
\* whatever the house seed, the card-identity permutation, the seeds and the
\* seat numbers are.
C19_DeckCheckTrueForAnyValues ==
    (results.loaded /\ SeatedHaveSeeds) => results.deckValid

\* C19, amended: verifyDeck returns true for every record in which each
\* participant id of the seat assignment has an entry in participantSeeds
\* and the protocol version, the game id, the house seed and the seeds are
\* text that UTF-8 encodes, whatever the house seed, the card-identity
\* permutation, the seeds and the seat numbers are otherwise: no change of
\* the dealt order or of those values to encodable ones makes deckValid
\* false. (Under SpecDeckCheck.)
C19_DeckCheckNonAuthoritative ==
    (results.loaded /\ SeatedHaveSeeds /\ DeckTextEncodable) => results.deckValid

\* a record of two seated participants passed the deck check after one of
\* its seat numbers was changed to a number another participant has or to 0
C19_Witness ==
    /\ results.loaded
    /\ baseline.loaded
    /\ baseline.field = "position"
    /\ SeatedHaveSeeds
    /\ DeckTextEncodable
    /\ Cardinality(DOMAIN gameData.positions) = 2
    /\ {gameData.positions[p] : p \in DOMAIN gameData.positions} # 1..2
    /\ results.deckValid

\* C20: for every sequence of generateServerSeed, processClientSeed,
\* assignPositions and generateDeck calls that holds a successful
\* generateServerSeed, verifyGame on the record exportGameData returns at
\* that point reports serverHashValid, doubleHashValid, checkVersionValid and
\* deckValid true and the commitment check of every participant true. (Under
\* SpecHonest.)
C20_HonestRecordVerifies ==
    (results.loaded /\ gameData.serverSeed # None) =>
        /\ results.serverHashValid
        /\ results.doubleHashValid
        /\ results.checkVersionValid
        /\ results.deckValid
        /\ DOMAIN results.commitmentValid = DOMAIN gameData.clientSeeds
        /\ \A p \in DOMAIN results.commitmentValid : results.commitmentValid[p]

\* the verified record is of a game with two seated participants, a deck
\* derived, and a call that failed last
C20_Witness ==
    /\ results.loaded
    /\ gameData.serverSeed # None
    /\ Cardinality(DOMAIN gameData.clientSeeds) = 2
    /\ DictTruthy(gameData.positions)
    /\ deck # None
    /\ lastCall.error # ""

====
